---- MODULE Spec2Model ----
(***************************************************************************)
(* Chemical.py: Substance, Mixture and Stream.                             *)
(*                                                                         *)
(* Python objects are tagged records (field k).  Numbers are exact         *)
(* rationals n/d in lowest terms (the floats of the source without their   *)
(* rounding); an exception that leaves an accessor is the value            *)
(* [k |-> "raise", e |-> <its type>], and every operation propagates the   *)
(* exception of its left operand first, then of its right operand, as      *)
(* Python's left-to-right evaluation does.                                 *)
(***************************************************************************)
EXTENDS Integers, Sequences, FiniteSets

VARIABLES mixture, stream, last, saved

vars == <<mixture, stream, last, saved>>

(***************************************************************************)
(* Bounds                                                                  *)
(***************************************************************************)
\* longest component list handed to Mixture(components)
MaxComponents == 2

\* deepest nesting of MassFractions/MolarFractions frames the interpreter
\* allows before it raises RecursionError (sys.getrecursionlimit(), scaled)
RecursionLimit == 3

(***************************************************************************)
(* Python values                                                           *)
(***************************************************************************)
RECURSIVE GCD(_, _)
GCD(a, b) ==
    IF b = 0 THEN a ELSE GCD(b, a % b)

Abs(x) ==
    IF x < 0 THEN -x ELSE x

\* the number n/d, d # 0, in lowest terms with a positive denominator
Num(n, d) ==
    LET g == GCD(Abs(n), Abs(d))
        s == IF d < 0 THEN -1 ELSE 1
    IN  [k |-> "num", n |-> s * (n \div g), d |-> s * (d \div g)]

PyNone == [k |-> "None"]

Raise(e) == [k |-> "raise", e |-> e]

Str(s) == [k |-> "str", s |-> s]

\* a bound method object such as mixture.Density (not called)
BoundMethod(name) == [k |-> "method", name |-> name]

\* a list object; obj names the attribute of the Mixture that holds this very
\* object ("wi", "zi"), or is "fresh" for a list no Mixture attribute holds
List(obj, items) == [k |-> "list", obj |-> obj, items |-> items]

IsRaise(x) == x.k = "raise"

IsNum(x) == x.k = "num"

IsList(x) == x.k = "list"

\* a * b on numbers, reducing across before multiplying
NumMul(a, b) ==
    LET g1 == GCD(Abs(a.n), b.d)
        g2 == GCD(Abs(b.n), a.d)
    IN  Num((a.n \div g1) * (b.n \div g2), (a.d \div g2) * (b.d \div g1))

NumAdd(a, b) ==
    LET g == GCD(a.d, b.d)
    IN  Num(a.n * (b.d \div g) + b.n * (a.d \div g), (a.d \div g) * b.d)

\* a / b on numbers, b # 0
NumDiv(a, b) ==
    NumMul(a, Num(b.d, b.n))

\* Python's a * b.  A str operand is a component name: float * str raises
\* TypeError, and int * str is a str that the following += onto a number
\* rejects with TypeError in the same statement.
PyMul(a, b) ==
    IF IsRaise(a) THEN a
    ELSE IF IsRaise(b) THEN b
    ELSE IF IsNum(a) /\ IsNum(b) THEN NumMul(a, b)
    ELSE Raise("TypeError")

\* Python's a + b
PyAdd(a, b) ==
    IF IsRaise(a) THEN a
    ELSE IF IsRaise(b) THEN b
    ELSE IF IsNum(a) /\ IsNum(b) THEN NumAdd(a, b)
    ELSE Raise("TypeError")

\* Python's a / b
PyDiv(a, b) ==
    IF IsRaise(a) THEN a
    ELSE IF IsRaise(b) THEN b
    ELSE IF IsNum(a) /\ IsNum(b)
         THEN IF b.n = 0 THEN Raise("ZeroDivisionError") ELSE NumDiv(a, b)
    ELSE Raise("TypeError")

\* Python's xs[i], i counted from 0
PyIndex(xs, i) ==
    IF IsRaise(xs) THEN xs
    ELSE IF IsList(xs)
         THEN IF i < Len(xs.items) THEN xs.items[i + 1] ELSE Raise("IndexError")
    ELSE Raise("TypeError")

\* xs.append(x); an exception raised while computing x leaves the loop that
\* builds xs
PyAppend(xs, x) ==
    IF IsRaise(xs) THEN xs
    ELSE IF IsRaise(x) THEN x
    ELSE [xs EXCEPT !.items = Append(@, x)]

\* Python's base ** exponent on numbers, kept as the pair it denotes: a power
\* with a fractional exponent has no rational value
PyPow(a, b) ==
    IF IsRaise(a) THEN a
    ELSE IF IsRaise(b) THEN b
    ELSE IF IsNum(a) /\ IsNum(b)
         THEN IF a.n = 0 /\ b.n < 0 THEN Raise("ZeroDivisionError")
              ELSE [k |-> "pow", base |-> a, exp |-> b]
    ELSE Raise("TypeError")

\* mu * p for a running product mu and a power p: the product with p appended
PyMulPow(mu, p) ==
    IF IsRaise(mu) THEN mu
    ELSE IF IsRaise(p) THEN p
    ELSE [k |-> "product", factors |-> Append(mu.factors, <<p.base, p.exp>>)]

(***************************************************************************)
(* Substance                                                               *)
(***************************************************************************)
Temperature0 == Num(29815, 100)

Pressure0 == Num(101325, 1)

\* Substance(name): every reference value unset
Substance(name) ==
    [Name |-> name,
     Temperature |-> Temperature0,
     Pressure |-> Pressure0,
     MolarMass |-> PyNone,
     Density0 |-> PyNone,
     Viscosity0 |-> PyNone,
     SpecificHeat0 |-> PyNone,
     Diffusivity0 |-> PyNone]

SubstanceDensity(c, T) == c.Density0

SubstanceViscosity(c, T) == c.Viscosity0

SubstanceSpecificHeat(c, T) == c.SpecificHeat0

(***************************************************************************)
(* Mixture                                                                 *)
(***************************************************************************)
To == Num(27315, 100)

Po == Num(101325, 1)

\* the gas constant written in Mass/Volume/Moles
R == Num(8314, 1000)

\* Mixture(components)
NewMixture(components) ==
    [Components |-> components,
     ComponentNames |-> [i \in 1..Len(components) |-> components[i].Name],
     wi |-> PyNone,
     zi |-> PyNone,
     V |-> PyNone,
     M |-> PyNone,
     N |-> PyNone,
     Temperature |-> Temperature0,
     Pressure |-> Pressure0]

\* OrderedDict(zip(keys, vals)): a key seen again keeps its first position
\* and takes the later value
RECURSIVE OrderedDictZip(_, _, _, _)
OrderedDictZip(keys, vals, i, acc) ==
    IF i > Len(keys) \/ i > Len(vals) THEN acc
    ELSE IF \E j \in 1..Len(acc.keys) : acc.keys[j] = keys[i]
         THEN LET j == CHOOSE j \in 1..Len(acc.keys) : acc.keys[j] = keys[i]
              IN  OrderedDictZip(keys, vals, i + 1,
                                 [acc EXCEPT !.vals[j] = vals[i]])
    ELSE OrderedDictZip(keys, vals, i + 1,
                        [k |-> "dict",
                         keys |-> Append(acc.keys, keys[i]),
                         vals |-> Append(acc.vals, vals[i])])

MolarMasses(m) ==
    LET MMi == [i \in 1..Len(m.Components) |-> m.Components[i].MolarMass]
    IN  OrderedDictZip(m.ComponentNames, MMi, 1,
                       [k |-> "dict", keys |-> <<>>, vals |-> <<>>])

RECURSIVE MassFractions(_, _)
RECURSIVE MolarFractions(_, _)
RECURSIVE MassFractionsDen(_, _, _, _, _)
RECURSIVE MassFractionsLoop(_, _, _, _, _)
RECURSIVE MolarFractionsDen(_, _, _, _, _)
RECURSIVE MolarFractionsLoop(_, _, _, _, _)

\* MassFractionsDen with the term of MolarFractions' denominator pasted in:
\* den += self.MolarFractions[j] / MMj
MassFractionsDen_Divides(m, MM, j, den, depth) ==
    IF j >= Len(MM) \/ IsRaise(den) THEN den
    ELSE MassFractionsDen(m, MM, j + 1,
             PyAdd(den, PyDiv(PyIndex(MolarFractions(m, depth + 1), j), MM[j + 1])),
             depth)

\* lines 67-68: den += self.MolarFractions[j] * MMj, from index j on
MassFractionsDen(m, MM, j, den, depth) ==
    IF j >= Len(MM) \/ IsRaise(den) THEN den
    ELSE MassFractionsDen(m, MM, j + 1,
             PyAdd(den, PyMul(PyIndex(MolarFractions(m, depth + 1), j), MM[j + 1])),
             depth)

\* lines 64-69, from index i on: wi.append(num / den), where num is computed
\* before den and the division comes last
MassFractionsLoop(m, MM, i, wi, depth) ==
    IF i >= Len(MM) \/ IsRaise(wi) THEN wi
    ELSE MassFractionsLoop(m, MM, i + 1,
             PyAppend(wi,
                 PyDiv(PyMul(PyIndex(MolarFractions(m, depth + 1), i), MM[i + 1]),
                       MassFractionsDen(m, MM, 0, Num(0, 1), depth))),
             depth)

\* depth is the number of MassFractions/MolarFractions frames on the stack,
\* this one included
MassFractions(m, depth) ==
    IF depth > RecursionLimit THEN Raise("RecursionError")
    ELSE IF m.wi = PyNone
         THEN MassFractionsLoop(m, MolarMasses(m).vals, 0, List("fresh", <<>>), depth)
    ELSE m.wi

\* lines 81-82: den += self.MassFractions[j] / MMj, from index j on
MolarFractionsDen(m, MM, j, den, depth) ==
    IF j >= Len(MM) \/ IsRaise(den) THEN den
    ELSE MolarFractionsDen(m, MM, j + 1,
             PyAdd(den, PyDiv(PyIndex(MassFractions(m, depth + 1), j), MM[j + 1])),
             depth)

\* lines 78-83, from index i on
MolarFractionsLoop(m, MM, i, zi, depth) ==
    IF i >= Len(MM) \/ IsRaise(zi) THEN zi
    ELSE MolarFractionsLoop(m, MM, i + 1,
             PyAppend(zi,
                 PyDiv(PyDiv(PyIndex(MassFractions(m, depth + 1), i), MM[i + 1]),
                       MolarFractionsDen(m, MM, 0, Num(0, 1), depth))),
             depth)

MolarFractions(m, depth) ==
    IF depth > RecursionLimit THEN Raise("RecursionError")
    ELSE IF m.zi = PyNone
         THEN MolarFractionsLoop(m, MolarMasses(m).vals, 0, List("fresh", <<>>), depth)
    ELSE m.zi

\* lines 49-50: iterating the OrderedDict yields its keys, the component
\* names, so MMi is a str
RECURSIVE MolarMassLoop(_, _, _, _)
MolarMassLoop(m, keys, i, MM) ==
    IF i >= Len(keys) \/ IsRaise(MM) THEN MM
    ELSE MolarMassLoop(m, keys, i + 1,
             PyAdd(MM, PyMul(PyIndex(MolarFractions(m, 1), i), Str(keys[i + 1]))))

MolarMass(m) ==
    MolarMassLoop(m, MolarMasses(m).keys, 0, Num(0, 1))

RECURSIVE DensityLoop(_, _, _, _)
DensityLoop(m, T, i, rho) ==
    IF i >= Len(m.Components) \/ IsRaise(rho) THEN rho
    ELSE DensityLoop(m, T, i + 1,
             PyAdd(rho, PyDiv(PyIndex(MassFractions(m, 1), i),
                              SubstanceDensity(m.Components[i + 1], T))))

\* Mixture.Density(T), a method
Density(m, T) ==
    PyDiv(Num(1, 1), DensityLoop(m, T, 0, Num(0, 1)))

RECURSIVE ViscosityLoop(_, _, _, _)
ViscosityLoop(m, T, i, mu) ==
    IF i >= Len(m.Components) \/ IsRaise(mu) THEN mu
    ELSE ViscosityLoop(m, T, i + 1,
             PyMulPow(mu, PyPow(SubstanceViscosity(m.Components[i + 1], T),
                                PyIndex(MassFractions(m, 1), i))))

\* Mixture.Viscosity(T), a method: 1.0 times the powers, in component order
Viscosity(m, T) ==
    ViscosityLoop(m, T, 0, [k |-> "product", factors |-> <<>>])

RECURSIVE SpecificHeatLoop(_, _, _, _)
SpecificHeatLoop(m, T, i, Cp) ==
    IF i >= Len(m.Components) \/ IsRaise(Cp) THEN Cp
    ELSE SpecificHeatLoop(m, T, i + 1,
             PyAdd(Cp, PyMul(PyIndex(MassFractions(m, 1), i),
                             SubstanceSpecificHeat(m.Components[i + 1], T))))

\* Mixture.SpecificHeat(T), a method
SpecificHeat(m, T) ==
    SpecificHeatLoop(m, T, 0, Num(0, 1))

\* self.Density is the bound method, not a call of it
Mass(m) ==
    IF m.M = PyNone
    THEN IF m.N = PyNone
         THEN PyMul(m.V, BoundMethod("Density"))
         ELSE PyMul(m.N, MolarMass(m))
    ELSE m.M

Volume(m) ==
    IF m.V = PyNone
    THEN IF m.N = PyNone
         THEN PyDiv(m.M, BoundMethod("Density"))
         ELSE PyDiv(PyMul(PyMul(m.N, R), m.Temperature), m.Pressure)
    ELSE m.V

\* Moles with the parentheses of the divisor dropped:
\* N = self.Pressure * self.V / 8.314 * self.Temperature
Moles_Unparenthesised(m) ==
    IF m.N = PyNone
    THEN IF m.V = PyNone
         THEN PyDiv(m.M, MolarMass(m))
         ELSE PyMul(PyDiv(PyMul(m.Pressure, m.V), R), m.Temperature)
    ELSE m.N

Moles(m) ==
    IF m.N = PyNone
    THEN IF m.V = PyNone
         THEN PyDiv(m.M, MolarMass(m))
         ELSE PyDiv(PyMul(m.Pressure, m.V), PyMul(R, m.Temperature))
    ELSE m.N

(***************************************************************************)
(* Stream                                                                  *)
(***************************************************************************)
\* Stream(mixture), lines 145-168: the first accessor of the mixture that
\* raises ends the construction, and no Stream object is handed back
StreamInit(m) ==
    LET T   == m.Temperature
        rho == Density(m, T)
        mu  == Viscosity(m, T)
        Cp  == SpecificHeat(m, T)
        MM  == MolarMass(m)
        MMs == MolarMasses(m)
        w   == MassFractions(m, 1)
        z   == MolarFractions(m, 1)
    IN  IF IsRaise(rho) THEN rho
        ELSE IF IsRaise(mu) THEN mu
        ELSE IF IsRaise(Cp) THEN Cp
        ELSE IF IsRaise(MM) THEN MM
        ELSE IF IsRaise(w) THEN w
        ELSE IF IsRaise(z) THEN z
        ELSE [k |-> "Stream",
              Components |-> m.Components,
              ComponentNames |-> m.ComponentNames,
              Temperature |-> T,
              Pressure |-> m.Pressure,
              Density |-> rho,
              Viscosity |-> mu,
              SpecificHeat |-> Cp,
              MolarMass |-> MM,
              MolarMasses |-> MMs,
              MassFractions |-> w,
              MolarFractions |-> z,
              Tag |-> PyNone,
              From |-> PyNone,
              To |-> PyNone,
              Mf |-> PyNone,
              Vf |-> PyNone,
              Vfo |-> PyNone,
              Nf |-> PyNone,
              ParticleSize |-> PyNone,
              ParticleCharge |-> PyNone]

RECURSIVE VolumeFlow(_)
RECURSIVE NormalVolumeFlow(_)

VolumeFlow(s) ==
    IF s.Vf = PyNone
    THEN IF s.Vfo = PyNone
         THEN PyDiv(s.Mf, s.Density)
         ELSE PyMul(PyMul(NormalVolumeFlow(s), PyDiv(Po, To)),
                    PyDiv(s.Temperature, s.Pressure))
    ELSE s.Vf

NormalVolumeFlow(s) ==
    IF s.Vfo = PyNone
    THEN PyMul(PyMul(VolumeFlow(s), PyDiv(To, Po)),
               PyDiv(s.Pressure, s.Temperature))
    ELSE s.Vfo

MassFlow(s) ==
    IF s.Mf = PyNone
    THEN IF s.Nf = PyNone
         THEN PyMul(VolumeFlow(s), s.Density)
         ELSE PyMul(s.Nf, s.MolarMass)
    ELSE s.Mf

MolarFlow(s) ==
    IF s.Nf = PyNone
    THEN PyDiv(MassFlow(s), s.MolarMass)
    ELSE s.Nf

\* [x * flow for x in fractions], from index i on; flow is read once per
\* element, so an empty list never reads it
RECURSIVE FlowsLoop(_, _, _, _)
FlowsLoop(fractions, flow, i, out) ==
    IF IsRaise(fractions) THEN fractions
    ELSE IF ~IsList(fractions) THEN Raise("TypeError")
    ELSE IF i >= Len(fractions.items) THEN List("fresh", out)
    ELSE LET q == PyMul(fractions.items[i + 1], flow)
         IN  IF IsRaise(q) THEN q
             ELSE FlowsLoop(fractions, flow, i + 1, Append(out, q))

MassFlows(s) ==
    FlowsLoop(s.MassFractions, MassFlow(s), 0, <<>>)

VolumeFlows(s) ==
    FlowsLoop(s.MolarFractions, VolumeFlow(s), 0, <<>>)

MolarFlows(s) ==
    FlowsLoop(s.MolarFractions, MolarFlow(s), 0, <<>>)

(***************************************************************************)
(* The owner's inputs                                                      *)
(***************************************************************************)
Names == <<"A", "B", "C", "D">>

\* the i-th Substance after its owner assigned its reference values
Specified(i) ==
    [Substance(Names[i]) EXCEPT !.MolarMass = Num(i, 50),
                                !.Density0 = Num(500 * (i + 1), 1),
                                !.Viscosity0 = Num(i, 1000),
                                !.SpecificHeat0 = Num(1000 * (i + 3), 1)]

\* component lists of distinct names; the last Substance may still be as
\* Substance(name) left it (blank)
ComponentLists ==
    {[i \in 1..nb[1] |-> IF nb[2] = 1 /\ i = nb[1] THEN Substance(Names[i])
                         ELSE Specified(i)] :
        nb \in {x \in (0..MaxComponents) \X {0, 1} : x[2] <= x[1]}}

Fractions == {Num(0, 1), Num(1, 2), Num(1, 1)}

RECURSIVE SumFrom(_, _)
SumFrom(xs, i) ==
    IF i > Len(xs) THEN Num(0, 1) ELSE NumAdd(xs[i], SumFrom(xs, i + 1))

\* the sum of a sequence of numbers
Sum(xs) == SumFrom(xs, 1)

\* the lists the owner writes, by length: the normalised ones, and the lists
\* of zeros and of ones (not normalised, but for [1])
FractionListsByLength ==
    [n \in 0..MaxComponents |->
        {f \in [1..n -> Fractions] :
            \/ Sum(f) = Num(1, 1)
            \/ \A i \in 1..n : f[i] = Num(0, 1)
            \/ \A i \in 1..n : f[i] = Num(1, 1)}]

FractionLists(n) == FractionListsByLength[n]

MassValues == {Num(2, 1)}

VolumeValues == {Num(3, 1000)}

MoleValues == {Num(5, 1)}

Temperatures == {Temperature0, Num(5963, 10)}

(***************************************************************************)
(* State                                                                   *)
(*   mixture  the Mixture, its Components included                         *)
(*   stream   the Stream built from it, or PyNone while there is none      *)
(*   last     the latest read: the accessor and what it returned or raised *)
(*   saved    history: the values a round trip started from                *)
(***************************************************************************)
NoRead == [op |-> "none", res |-> PyNone]

NoSaved == [kind |-> "none"]

Init ==
    /\ \E components \in ComponentLists : mixture = NewMixture(components)
    /\ stream = PyNone
    /\ last = NoRead
    /\ saved = NoSaved

\* an assignment by the owner: what was read before is stale
Assigned(m) ==
    /\ mixture' = m
    /\ last' = NoRead
    /\ saved' = NoSaved
    /\ UNCHANGED stream

NumComponents == Len(mixture.Components)

\* mixture.wi = <a new list> or None
AssignWi ==
    \E w \in {PyNone} \cup {List("wi", f) : f \in FractionLists(NumComponents)} :
        Assigned([mixture EXCEPT !.wi = w])

\* mixture.zi = <a new list> or None
AssignZi ==
    \E z \in {PyNone} \cup {List("zi", f) : f \in FractionLists(NumComponents)} :
        Assigned([mixture EXCEPT !.zi = z])

\* mixture.wi[i] = x, in place
SetItemWi ==
    /\ IsList(mixture.wi)
    /\ \E i \in 1..Len(mixture.wi.items), x \in Fractions :
        /\ mixture.wi.items[i] # x
        /\ [mixture.wi.items EXCEPT ![i] = x] \in FractionLists(NumComponents)
        /\ Assigned([mixture EXCEPT !.wi.items[i] = x])

\* mixture.zi[i] = x, in place
SetItemZi ==
    /\ IsList(mixture.zi)
    /\ \E i \in 1..Len(mixture.zi.items), x \in Fractions :
        /\ mixture.zi.items[i] # x
        /\ [mixture.zi.items EXCEPT ![i] = x] \in FractionLists(NumComponents)
        /\ Assigned([mixture EXCEPT !.zi.items[i] = x])

AssignM ==
    \E x \in {PyNone} \cup MassValues : Assigned([mixture EXCEPT !.M = x])

AssignV ==
    \E x \in {PyNone} \cup VolumeValues : Assigned([mixture EXCEPT !.V = x])

AssignN ==
    \E x \in {PyNone} \cup MoleValues : Assigned([mixture EXCEPT !.N = x])

AssignTemperature ==
    \E x \in Temperatures : Assigned([mixture EXCEPT !.Temperature = x])

\* z = mixture.MolarFractions; mixture.zi = z; mixture.wi = None
AssignZiFromRead ==
    /\ last.op = "MolarFractions"
    /\ IsList(last.res)
    /\ IsList(mixture.wi)
    /\ mixture.zi = PyNone
    /\ mixture' = [mixture EXCEPT !.zi = List("zi", last.res.items), !.wi = PyNone]
    /\ saved' = [kind |-> "fractions", wi |-> mixture.wi.items, z |-> last.res.items]
    /\ last' = NoRead
    /\ UNCHANGED stream

\* v = mixture.Volume; mixture.V = v; mixture.N = None
AssignVFromRead ==
    /\ last.op = "Volume"
    /\ IsNum(last.res)
    /\ mixture.V = PyNone
    /\ mixture.M = PyNone
    /\ mixture.N # PyNone
    /\ mixture' = [mixture EXCEPT !.V = last.res, !.N = PyNone]
    /\ saved' = [kind |-> "gas", N |-> mixture.N, v |-> last.res]
    /\ last' = NoRead
    /\ UNCHANGED stream

\* a read that memoises: a derived fraction list is stored in the attribute
\* it was derived for
Read_Memoising(op, res) ==
    /\ last' = [op |-> op, res |-> res]
    /\ mixture' = IF op = "MassFractions" /\ IsList(res)
                  THEN [mixture EXCEPT !.wi = List("wi", res.items)]
                  ELSE IF op = "MolarFractions" /\ IsList(res)
                  THEN [mixture EXCEPT !.zi = List("zi", res.items)]
                  ELSE mixture
    /\ UNCHANGED <<stream, saved>>

\* a read of an accessor: nothing but the caller's result changes
Read(op, res) ==
    /\ last' = [op |-> op, res |-> res]
    /\ UNCHANGED <<mixture, stream, saved>>

ReadMolarMasses == Read("MolarMasses", MolarMasses(mixture))

ReadMolarMass == Read("MolarMass", MolarMass(mixture))

ReadMassFractions == Read("MassFractions", MassFractions(mixture, 1))

ReadMolarFractions == Read("MolarFractions", MolarFractions(mixture, 1))

ReadMass == Read("Mass", Mass(mixture))

ReadVolume == Read("Volume", Volume(mixture))

ReadMoles == Read("Moles", Moles(mixture))

ReadDensity == Read("Density", Density(mixture, Temperature0))

ReadViscosity == Read("Viscosity", Viscosity(mixture, Temperature0))

ReadSpecificHeat == Read("SpecificHeat", SpecificHeat(mixture, Temperature0))

\* stream = Stream(mixture): the name is bound only if the constructor returns
NewStream ==
    LET s == StreamInit(mixture)
    IN  /\ last' = [op |-> "Stream", res |-> s]
        /\ stream' = IF IsRaise(s) THEN stream ELSE s
        /\ UNCHANGED <<mixture, saved>>

Next ==
    \/ AssignWi
    \/ AssignZi
    \/ SetItemWi
    \/ SetItemZi
    \/ AssignM
    \/ AssignV
    \/ AssignN
    \/ AssignTemperature
    \/ AssignZiFromRead
    \/ AssignVFromRead
    \/ ReadMolarMasses
    \/ ReadMolarMass
    \/ ReadMassFractions
    \/ ReadMolarFractions
    \/ ReadMass
    \/ ReadVolume
    \/ ReadMoles
    \/ ReadDensity
    \/ ReadViscosity
    \/ ReadSpecificHeat
    \/ NewStream

Spec == Init /\ [][Next]_vars

(***************************************************************************)
(* Vocabulary of the properties                                            *)
(***************************************************************************)
One == Num(1, 1)

IsNone(x) == x.k = "None"

IsStream(x) == x.k = "Stream"

\* every reference value of every component has been assigned
ReferenceValuesSet(m) ==
    \A i \in 1..Len(m.Components) :
        /\ IsNum(m.Components[i].MolarMass)
        /\ IsNum(m.Components[i].Density0)
        /\ IsNum(m.Components[i].Viscosity0)
        /\ IsNum(m.Components[i].SpecificHeat0)

MolarMassesKnown(m) ==
    \A i \in 1..Len(m.Components) : IsNum(m.Components[i].MolarMass)

\* exactly one of wi, zi is stored, and it is normalised
CompositionSpecified(m) ==
    \/ IsList(m.wi) /\ IsNone(m.zi) /\ Sum(m.wi.items) = One
    \/ IsList(m.zi) /\ IsNone(m.wi) /\ Sum(m.zi.items) = One

\* a Mixture the spec lets every accessor and Stream(mixture) be used on
WellSpecified(m) ==
    /\ Len(m.Components) >= 1
    /\ ReferenceValuesSet(m)
    /\ CompositionSpecified(m)

RECURSIVE WeightedSumFrom(_, _, _)
WeightedSumFrom(xs, ys, i) ==
    IF i > Len(xs) THEN Num(0, 1)
    ELSE NumAdd(NumMul(xs[i], ys[i]), WeightedSumFrom(xs, ys, i + 1))

\* the sum over i of xs[i] * ys[i]
WeightedSum(xs, ys) == WeightedSumFrom(xs, ys, 1)

StoredQuantities(m) == {f \in {"M", "V", "N"} : ~IsNone(m[f])}

FlowValues == {Num(10, 1), Num(3, 1)}

(***************************************************************************)
(* C1.  A read of a derived accessor on a fully unset basis ends in an     *)
(* error: MassFractions and MolarFractions with wi and zi both unset, and  *)
(* Mass, Volume and Moles with M, V and N all unset, raise.                *)
(***************************************************************************)
C1_UnsetBasisReadRaises ==
    /\ (/\ last.op \in {"MassFractions", "MolarFractions"}
        /\ IsNone(mixture.wi)
        /\ IsNone(mixture.zi)) => IsRaise(last.res)
    /\ (/\ last.op \in {"Mass", "Volume", "Moles"}
        /\ StoredQuantities(mixture) = {}) => IsRaise(last.res)

(***************************************************************************)
(* C2.  Stream(mixture) on a well-specified Mixture yields a Stream that   *)
(* is a value snapshot: it holds the seven intensive properties, and       *)
(* neither of its fraction lists is a list object of the Mixture, so that  *)
(* no later assignment to the Mixture, in place or not, reaches it.        *)
(***************************************************************************)
C2_StreamIsSnapshot ==
    (last.op = "Stream" /\ WellSpecified(mixture)) =>
        /\ IsStream(last.res)
        /\ last.res.MassFractions.obj = "fresh"
        /\ last.res.MolarFractions.obj = "fresh"

(***************************************************************************)
(* C3.  On a Mixture with at least one component, known molar masses and   *)
(* a composition from which MolarFractions is derivable, MolarMass returns *)
(* the sum over i of MolarFractions[i] * Components[i].MolarMass.          *)
(***************************************************************************)
C3_MolarMassIsWeightedAverage ==
    (/\ last.op = "MolarMass"
     /\ Len(mixture.Components) >= 1
     /\ MolarMassesKnown(mixture)
     /\ CompositionSpecified(mixture)) =>
        /\ IsNum(last.res)
        /\ last.res = WeightedSum(MolarFractions(mixture, 1).items,
                                  MolarMasses(mixture).vals)

(***************************************************************************)
(* C4.  Fraction round trip: when z was read from MolarFractions with a    *)
(* normalised wi stored and zi unset, and then zi = z is stored with wi    *)
(* unset, MassFractions returns the original wi.                           *)
(***************************************************************************)
C4_FractionRoundTrip ==
    (/\ saved.kind = "fractions"
     /\ Sum(saved.wi) = One
     /\ IsNone(mixture.wi)
     /\ IsList(mixture.zi)
     /\ mixture.zi.items = saved.z
     /\ last.op = "MassFractions") =>
        /\ IsList(last.res)
        /\ last.res.items = saved.wi

\* a round trip of a true two-component blend whose mole fractions differ
\* from its mass fractions
C4_Witness ==
    /\ saved.kind = "fractions"
    /\ Sum(saved.wi) = One
    /\ Len(saved.wi) >= 2
    /\ \A i \in 1..2 : saved.wi[i].n > 0
    /\ saved.z # saved.wi
    /\ IsNone(mixture.wi)
    /\ last.op = "MassFractions"
    /\ IsList(last.res)
    /\ last.res.items = saved.wi

(***************************************************************************)
(* C5.  With a specified composition and exactly one of M, V, N stored,    *)
(* Mass, Volume and Moles each return a number: the stored field where it  *)
(* is theirs, else V * Density or N * MolarMass (Mass), M / Density or     *)
(* N R T / P (Volume), M / MolarMass or P V / (R T) (Moles).               *)
(***************************************************************************)
C5_QuantitiesByRule ==
    LET m   == mixture
        rho == Density(m, m.Temperature)
        MM  == WeightedSum(MolarFractions(m, 1).items, MolarMasses(m).vals)
        RT  == NumMul(R, m.Temperature)
    IN  (/\ last.op \in {"Mass", "Volume", "Moles"}
         /\ WellSpecified(m)
         /\ Cardinality(StoredQuantities(m)) = 1) =>
            /\ IsNum(last.res)
            /\ last.op = "Mass" =>
                 last.res = IF ~IsNone(m.M) THEN m.M
                            ELSE IF ~IsNone(m.V) THEN NumMul(m.V, rho)
                            ELSE NumMul(m.N, MM)
            /\ last.op = "Volume" =>
                 last.res = IF ~IsNone(m.V) THEN m.V
                            ELSE IF ~IsNone(m.M) THEN NumDiv(m.M, rho)
                            ELSE NumDiv(NumMul(m.N, RT), m.Pressure)
            /\ last.op = "Moles" =>
                 last.res = IF ~IsNone(m.N) THEN m.N
                            ELSE IF ~IsNone(m.M) THEN NumDiv(m.M, MM)
                            ELSE NumDiv(NumMul(m.Pressure, m.V), RT)

(***************************************************************************)
(* C6.  Ideal-gas round trip: when v was read from Volume with only N      *)
(* stored, v is N R T / P; once V = v is stored with N and M unset, at the *)
(* same Temperature and Pressure, Moles returns the original N and Volume  *)
(* returns v.                                                              *)
(***************************************************************************)
C6_IdealGasRoundTrip ==
    (/\ saved.kind = "gas"
     /\ mixture.V = saved.v
     /\ IsNone(mixture.N)
     /\ IsNone(mixture.M)) =>
        /\ saved.v = NumDiv(NumMul(NumMul(saved.N, R), mixture.Temperature),
                            mixture.Pressure)
        /\ last.op = "Moles" => last.res = saved.N
        /\ last.op = "Volume" => last.res = saved.v

C6_Witness ==
    /\ saved.kind = "gas"
    /\ mixture.V = saved.v
    /\ mixture.V # saved.N
    /\ IsNone(mixture.N)
    /\ IsNone(mixture.M)
    /\ last.op = "Moles"
    /\ last.res = saved.N

(***************************************************************************)
(* C7.  A Stream built from a well-specified Mixture, with at least one of *)
(* Mf, Nf stored, has MassFlow = MolarFlow * MolarMass; with both stored,  *)
(* Mf decides both accessors.                                              *)
(***************************************************************************)
C7_MassFlowIsMolarFlowTimesMolarMass ==
    (last.op = "Stream" /\ WellSpecified(mixture)) =>
        /\ IsStream(last.res)
        /\ \A mf \in FlowValues \cup {PyNone}, nf \in FlowValues \cup {PyNone} :
             (~IsNone(mf) \/ ~IsNone(nf)) =>
                LET s == [last.res EXCEPT !.Mf = mf, !.Nf = nf]
                IN  /\ IsNum(MassFlow(s))
                    /\ MassFlow(s) = PyMul(MolarFlow(s), s.MolarMass)
                    /\ ~IsNone(mf) => MassFlow(s) = mf

(***************************************************************************)
(* C8.  On a Stream built from a well-specified Mixture, with a flow       *)
(* stored, MassFlows sums to MassFlow, VolumeFlows to VolumeFlow and       *)
(* MolarFlows to MolarFlow.                                                *)
(***************************************************************************)
C8_ComponentFlowsSumToFlow ==
    (last.op = "Stream" /\ WellSpecified(mixture)) =>
        /\ IsStream(last.res)
        /\ \A mf \in FlowValues :
             LET s == [last.res EXCEPT !.Mf = mf]
             IN  /\ IsList(MassFlows(s))
                 /\ Sum(MassFlows(s).items) = MassFlow(s)
                 /\ IsList(VolumeFlows(s))
                 /\ Sum(VolumeFlows(s).items) = VolumeFlow(s)
                 /\ IsList(MolarFlows(s))
                 /\ Sum(MolarFlows(s).items) = MolarFlow(s)

(***************************************************************************)
(* C9.  A read of a derived accessor of the Mixture changes no stored      *)
(* field of the Mixture, of its Substances or of the Stream, whether it    *)
(* returns or raises; and a second read of the same accessor in the        *)
(* unchanged state gives the same result.                                  *)
(***************************************************************************)
Accessors ==
    {"MolarMasses", "MolarMass", "MassFractions", "MolarFractions", "Mass",
     "Volume", "Moles", "Density", "Viscosity", "SpecificHeat"}

C10_OneStoredFlowDerivesAll ==
    (last.op = "Stream" /\ WellSpecified(mixture)) =>
        /\ IsStream(last.res)
        /\ \A f \in {"Mf", "Nf", "Vf", "Vfo"}, x \in FlowValues :
             LET s == [last.res EXCEPT ![f] = x]
             IN  /\ IsNum(MassFlow(s))
                 /\ IsNum(MolarFlow(s))
                 /\ IsNum(VolumeFlow(s))
                 /\ IsNum(NormalVolumeFlow(s))

====
